---------------------------- MODULE Spec2Model ----------------------------
(***************************************************************************)
(* A model of GoogleTTSService (src/streamingtts.py): the text chunker,    *)
(* the streaming request builder and the streaming synthesis driver        *)
(* run_tts.                                                                *)
(*                                                                         *)
(* A text is a sequence of one-character strings.  A token and a chunk are *)
(* texts too.                                                              *)
(***************************************************************************)
EXTENDS Naturals, Sequences, FiniteSets, TLC

VARIABLES
    text,       \* _chunk_text: the argument
    chunks,     \* _chunk_text: the returned list
    cpc,        \* _chunk_text: "start" before the call, "done" after it
    _voice_id,  \* self._voice_id
    _settings,  \* self._settings
    credentials,      \* __init__: the argument credentials
    credentials_path, \* __init__: the argument credentials_path
    _client,    \* self._client
    construction, \* __init__: how far it is, the credential sources it
                \* consulted with what each gave, and the exception it raised
    ctext,      \* per call: the text handed to run_tts
    gen,        \* per call: the request generator (its closure and position)
    sent,       \* per call: the requests the generator has yielded, in order
    pc,         \* per call: where run_tts stands
    log,        \* per call: what run_tts has done, in order: the frames it
                \* yielded, its calls of the metrics, of the remote endpoint,
                \* and the cancellation its caller signalled
    responses,  \* per call: len(response.audio_content) of the responses
                \* received, in order
    ttfb_sent,  \* per call: the local ttfb_sent
    offset,     \* per call: the loop variable i of line 761
    cancel_pending, \* per call: the caller cancelled, run_tts has not resumed
    failure,    \* per call: the operation that raised, or "none"
    raised,     \* per call: the exception run_tts let through to its caller
    captured    \* the steps the other tasks of the event loop have run

chunk_vars == <<text, chunks, cpc>>

service_vars ==
    <<_voice_id, _settings, credentials, credentials_path, _client,
      construction>>

request_vars == <<ctext, gen, sent>>

driver_vars ==
    <<pc, log, responses, ttfb_sent, offset, cancel_pending, failure, raised>>

loop_vars == <<captured>>

vars == <<text, chunks, cpc, _voice_id, _settings, credentials,
          credentials_path, _client, construction, ctext, gen, sent, pc, log,
          responses, ttfb_sent, offset, cancel_pending, failure, raised,
          captured>>

\* the calls of run_tts the model tells apart
Calls == {1, 2}

-----------------------------------------------------------------------------
(* Bounds of the model *)

\* longest text over WordAlphabet handed to _chunk_text in SpecChunk
MaxTextLen == 8

\* longest text over PunctAlphabet handed to _chunk_text in SpecChunk
MaxPunctLen == 4

\* most responses the remote endpoint sends in one call
MaxResponses == 2

\* most steps the other tasks of the event loop run
MaxCaptured == 1

-----------------------------------------------------------------------------
(* Characters *)

\* the characters c of the model with c.isalnum()
Alnum == {"a", "b", "c", "d", "1", "2"}

\* the characters c of the model with c.isspace()
Whitespace == {" ", "\n", "\t"}

\* the Devanagari full stop (danda, U+0964), one character of the text; it
\* is neither alphanumeric nor whitespace
Danda == "U+0964"

\* str.isalnum() of one character
isalnum(c) == c \in Alnum

\* str.isspace() of a token: not empty, and whitespace only
isspace(tok) == Len(tok) > 0 /\ \A k \in 1..Len(tok) : tok[k] \in Whitespace

\* bool(token.strip()): some character of the token is not whitespace
strip_nonempty(tok) == \E k \in 1..Len(tok) : tok[k] \notin Whitespace

\* any(c.isalnum() for c in token)
any_alnum(tok) == \E k \in 1..Len(tok) : isalnum(tok[k])

\* str.endswith(' ')
endswith_space(s) == Len(s) > 0 /\ s[Len(s)] = " "

-----------------------------------------------------------------------------
(* _chunk_text *)

MAX_WORDS_PER_CHUNK == 3

sentence_boundaries == {".", "!", "?", "|", "\n"}

\* closing_chars with a fault: no character is taken in after a boundary
closing_chars_none == {}

\* the characters taken into the sentence after a boundary (line 596)
closing_chars == {"\"", "'", ")", "]", "}"}

\* The while loop of lines 579-604, from index i (1-based) with the sentence
\* being built and the sentences found, and the flush of lines 607-608.
RECURSIVE split_loop(_, _, _, _)
split_loop(t, i, current_sentence, sentences) ==
    IF i > Len(t)
    THEN IF current_sentence # <<>>
         THEN Append(sentences, current_sentence)
         ELSE sentences
    ELSE IF t[i] = "\n"
    THEN split_loop(t, i + 1, <<>>,
                    Append(sentences, Append(current_sentence, t[i])))
    ELSE LET cur == Append(current_sentence, t[i]) IN
         IF t[i] \in sentence_boundaries
         THEN IF i + 1 <= Len(t) /\ t[i + 1] \in closing_chars
              THEN split_loop(t, i + 2, <<>>,
                              Append(sentences, Append(cur, t[i + 1])))
              ELSE split_loop(t, i + 1, <<>>, Append(sentences, cur))
         ELSE split_loop(t, i + 1, cur, sentences)

split_sentences(t) == split_loop(t, 1, <<>>, <<>>)

\* The tokenizer of lines 614-629: words are runs of alphanumerics and
\* apostrophes, every other character is a token of its own.
RECURSIVE token_loop(_, _, _, _)
token_loop(sentence, k, current_word, tokens) ==
    IF k > Len(sentence)
    THEN IF current_word # <<>> THEN Append(tokens, current_word) ELSE tokens
    ELSE LET char == sentence[k] IN
         IF isalnum(char) \/ char = "'"
         THEN token_loop(sentence, k + 1, Append(current_word, char), tokens)
         ELSE token_loop(sentence, k + 1, <<>>,
                  Append(IF current_word # <<>>
                         THEN Append(tokens, current_word)
                         ELSE tokens,
                         <<char>>))

tokenize(sentence) == token_loop(sentence, 1, <<>>, <<>>)

\* line 640: the token counts as a real word
is_real_word(token) == strip_nonempty(token) /\ any_alnum(token)

\* chunk_full with a fault: the chunk is closed one word late
chunk_full_late(word_count) == word_count = MAX_WORDS_PER_CHUNK + 1

\* line 646: the chunk is closed when the count reaches the bound
chunk_full(word_count) == word_count = MAX_WORDS_PER_CHUNK

\* The index of the token the for loop of line 636 takes after token i, when
\* the body has run line 658 (i += 1).  The loop variable comes from
\* enumerate(tokens), so the assignment is overwritten by the next iteration:
\* the next token is i + 1 whatever the body did.
next_index_after_skip(i) == i + 1

\* lines 666-671: what is left of the sentence, made to end with a space
final_chunk_of(current_chunk) ==
    IF endswith_space(current_chunk)
    THEN current_chunk
    ELSE current_chunk \o <<" ">>

\* The for loop of lines 636-663 over the tokens of one sentence, from token
\* i, and the flush of lines 666-671.  current_chunk is "".join(current_chunk).
RECURSIVE group_loop(_, _, _, _, _)
group_loop(tokens, i, current_chunk, word_count, out) ==
    IF i > Len(tokens)
    THEN IF current_chunk # <<>>
         THEN Append(out, final_chunk_of(current_chunk))
         ELSE out
    ELSE LET token == tokens[i]
             chunk == current_chunk \o token
             wc    == IF is_real_word(token) THEN word_count + 1 ELSE word_count
         IN  IF chunk_full(wc)
             THEN IF isspace(token)
                  THEN group_loop(tokens, i + 1, <<>>, 0, Append(out, chunk))
                  ELSE IF i + 1 <= Len(tokens) /\ isspace(tokens[i + 1])
                  THEN group_loop(tokens, next_index_after_skip(i), <<>>, 0,
                                  Append(out, chunk \o tokens[i + 1]))
                  ELSE group_loop(tokens, i + 1, <<>>, 0,
                                  Append(out, chunk \o <<" ">>))
             ELSE group_loop(tokens, i + 1, chunk, wc, out)

\* sentence_chunks with a fault: current_chunk and word_count are not set
\* anew for a sentence and nothing is flushed at its end, so that what is
\* left of a sentence goes into the first chunk of the next
RECURSIVE sentence_chunks_merged(_, _, _)
sentence_chunks_merged(sentences, n, out) ==
    IF n > Len(sentences)
    THEN out
    ELSE IF n < Len(sentences)
    THEN sentence_chunks_merged(
             [sentences EXCEPT ![n + 1] = sentences[n] \o @], n + 1, out)
    ELSE group_loop(tokenize(sentences[n]), 1, <<>>, 0, out)

\* lines 611-671: the chunks of every sentence, in order
RECURSIVE sentence_chunks(_, _, _)
sentence_chunks(sentences, n, out) ==
    IF n > Len(sentences)
    THEN out
    ELSE sentence_chunks(sentences, n + 1,
                         group_loop(tokenize(sentences[n]), 1, <<>>, 0, out))

\* final_cleanup with a fault: the pass is left out
final_cleanup_none(cs) == cs

\* lines 674-676: every chunk that does not end with a space gets one
final_cleanup(cs) ==
    [n \in 1..Len(cs) |->
        IF endswith_space(cs[n]) THEN cs[n] ELSE cs[n] \o <<" ">>]

_chunk_text(t) ==
    final_cleanup(sentence_chunks(split_sentences(t), 1, <<>>))

-----------------------------------------------------------------------------
(* Strings other than texts                                                *)
(*                                                                         *)
(* A voice identifier is a sequence of characters.  A markup string is a   *)
(* sequence of pieces: the literal parts of the f-strings of               *)
(* _construct_ssml, each one piece, and the characters of the values put   *)
(* into them.  An optional value is None or Some(string).                  *)

None == [some |-> FALSE, s |-> <<>>]

Some(str) == [some |-> TRUE, s |-> str]

\* the truth value Python gives an Optional[str]: None and "" are false
truthy(v) == v.some /\ v.s # <<>>

\* the value as an f-string prints it
fmt(v) == IF v.some THEN v.s ELSE <<"N", "o", "n", "e">>

UpperCase == <<"A", "B", "C", "D", "E", "F", "G", "H", "I", "J", "K", "L", "M",
               "N", "O", "P", "Q", "R", "S", "T", "U", "V", "W", "X", "Y", "Z">>

LowerCase == <<"a", "b", "c", "d", "e", "f", "g", "h", "i", "j", "k", "l", "m",
               "n", "o", "p", "q", "r", "s", "t", "u", "v", "w", "x", "y", "z">>

\* str.lower()
lower(str) ==
    [k \in 1..Len(str) |->
        IF \E n \in 1..Len(UpperCase) : UpperCase[n] = str[k]
        THEN LowerCase[CHOOSE n \in 1..Len(UpperCase) : UpperCase[n] = str[k]]
        ELSE str[k]]

\* sub in str
contains(sub, str) ==
    \E k \in 0..Len(str) :
        k + Len(sub) <= Len(str) /\ SubSeq(str, k + 1, k + Len(sub)) = sub

\* sep.join(parts)
RECURSIVE join(_, _)
join(parts, sep) ==
    IF parts = <<>> THEN <<>>
    ELSE IF Len(parts) = 1 THEN parts[1]
    ELSE parts[1] \o sep \o join(Tail(parts), sep)

-----------------------------------------------------------------------------
(* language_to_google_tts_language and __init__ *)

\* the entries of language_map the model uses; "AZ" stands for a member of
\* Language the table does not list
language_map ==
    [l \in {"EN", "EN_GB", "HI"} |->
        CASE l = "EN"    -> <<"e", "n", "-", "U", "S">>
          [] l = "EN_GB" -> <<"e", "n", "-", "G", "B">>
          [] l = "HI"    -> <<"h", "i", "-", "I", "N">>]

\* language_map.get(language)
language_to_google_tts_language(language) ==
    IF language \in DOMAIN language_map
    THEN Some(language_map[language])
    ELSE None

\* lines 228-239: params.language is a member of Language or None
init_settings(params) ==
    [pitch        |-> params.pitch,
     rate         |-> params.rate,
     volume       |-> params.volume,
     emphasis     |-> params.emphasis,
     language     |-> IF params.language # "None"
                      THEN language_to_google_tts_language(params.language)
                      ELSE Some(<<"e", "n", "-", "U", "S">>),
     gender       |-> params.gender,
     google_style |-> params.google_style]

-----------------------------------------------------------------------------
(* _create_client                                                          *)
(*                                                                         *)
(* Credentials are named by the source that gave them: "info" (the JSON    *)
(* string), "file" (the path) or "default" (the environment); "none" is    *)
(* the None that creds starts with.                                        *)

\* self._client before line 241 has run, and after it has raised
NoClient == [created |-> FALSE, credentials |-> "none"]

\* line 268: texttospeech_v1.TextToSpeechClient(credentials=creds)
TextToSpeechClient(creds) == [created |-> TRUE, credentials |-> creds]

\* lines 250, 254, 258: the one source _create_client consults
source_of(cred, path) ==
    IF truthy(cred) THEN "info"
    ELSE IF truthy(path) THEN "file"
    ELSE "default"

\* What a source can give: the credentials, or an exception.  json.loads
\* and from_service_account_info raise on a string that is not the JSON of
\* a service account, from_service_account_file on a file that is missing
\* or malformed, default() when the environment holds no credentials.
Outcomes(source) ==
    CASE source = "info"    -> {"creds", "JSONDecodeError", "ValueError"}
      [] source = "file"    -> {"creds", "FileNotFoundError", "ValueError"}
      [] source = "default" -> {"creds", "GoogleAuthError"}

\* lines 258-263: the exception is caught only around default(), and only
\* if it is a GoogleAuthError
auth_error_passed(source, outcome) ==
    source = "default" /\ outcome = "GoogleAuthError"

\* creds_missing with a fault: the test of line 265 is left out
creds_missing_never(creds) == FALSE

\* line 265: not creds
creds_missing(creds) == creds = "none"

\* lines 243-268, when the source consulted gives outcome: the sources
\* consulted, the client returned, and the exception raised instead
_create_client(cred, path, outcome) ==
    LET source == source_of(cred, path)
        creds  == IF outcome = "creds" THEN source ELSE "none"
        error  == IF outcome # "creds" /\ ~auth_error_passed(source, outcome)
                  THEN outcome
                  ELSE IF creds_missing(creds) THEN "ValueError" ELSE "none"
    IN  [consulted |-> <<[source |-> source, outcome |-> outcome]>>,
         error     |-> error,
         client    |-> IF error = "none"
                       THEN TextToSpeechClient(creds)
                       ELSE NoClient]

-----------------------------------------------------------------------------
(* _construct_ssml *)

\* closing_tags with a fault: the emphasis tag is closed before the style tag
closing_tags_misnested(settings, with_prosody) ==
    (IF truthy(settings.emphasis) THEN <<"</emphasis>">> ELSE <<>>)
    \o (IF truthy(settings.google_style) THEN <<"</google:style>">> ELSE <<>>)
    \o (IF with_prosody THEN <<"</prosody>">> ELSE <<>>)
    \o <<"</voice></speak>">>

\* lines 311-319: the closing tags; with_prosody is bool(prosody_attrs)
closing_tags(settings, with_prosody) ==
    (IF truthy(settings.google_style) THEN <<"</google:style>">> ELSE <<>>)
    \o (IF truthy(settings.emphasis) THEN <<"</emphasis>">> ELSE <<>>)
    \o (IF with_prosody THEN <<"</prosody>">> ELSE <<>>)
    \o <<"</voice></speak>">>

_construct_ssml(voice_id, settings, chunk) ==
    LET voice_attrs ==
            <<(<<"name='">> \o voice_id \o <<"'">>),
              (<<"language='">> \o fmt(settings.language) \o <<"'">>)>>
            \o (IF truthy(settings.gender)
                THEN <<(<<"gender='">> \o fmt(settings.gender) \o <<"'">>)>>
                ELSE <<>>)
        prosody_attrs ==
            (IF truthy(settings.pitch)
             THEN <<(<<"pitch='">> \o fmt(settings.pitch) \o <<"'">>)>>
             ELSE <<>>)
            \o (IF truthy(settings.rate)
                THEN <<(<<"rate='">> \o fmt(settings.rate) \o <<"'">>)>>
                ELSE <<>>)
            \o (IF truthy(settings.volume)
                THEN <<(<<"volume='">> \o fmt(settings.volume) \o <<"'">>)>>
                ELSE <<>>)
    IN  <<"<speak>">>
        \o <<"<voice ">> \o join(voice_attrs, <<" ">>) \o <<">">>
        \o (IF prosody_attrs # <<>>
            THEN <<"<prosody ">> \o join(prosody_attrs, <<" ">>) \o <<">">>
            ELSE <<>>)
        \o (IF truthy(settings.emphasis)
            THEN <<"<emphasis level='">> \o fmt(settings.emphasis) \o <<"'>">>
            ELSE <<>>)
        \o (IF truthy(settings.google_style)
            THEN <<"<google:style name='">> \o fmt(settings.google_style)
                 \o <<"'>">>
            ELSE <<>>)
        \o chunk
        \o closing_tags(settings, prosody_attrs # <<>>)

-----------------------------------------------------------------------------
(* _create_streaming_request_generator *)

chirp == <<"c", "h", "i", "r", "p">>

journey == <<"j", "o", "u", "r", "n", "e", "y">>

\* is_chirp_voice with a fault: the identifier is not lowered before the test
is_chirp_voice_cased(voice_id) == contains(chirp, voice_id)

\* line 686
is_chirp_voice(voice_id) == contains(chirp, lower(voice_id))

\* is_journey_voice with a fault: the identifier is not lowered before the
\* test
is_journey_voice_cased(voice_id) == contains(journey, voice_id)

\* line 687
is_journey_voice(voice_id) == contains(journey, lower(voice_id))

\* use_ssml with a fault: the negation is lost
use_ssml_inverted(voice_id) ==
    is_chirp_voice(voice_id) \/ is_journey_voice(voice_id)

\* line 688
use_ssml(voice_id) == ~(is_chirp_voice(voice_id) \/ is_journey_voice(voice_id))

\* lines 691-704
config_request(voice_id, settings) ==
    [kind          |-> "config",
     language_code |-> settings.language,
     name          |-> voice_id]

\* lines 713-723: the request of one chunk
input_request(with_ssml, voice_id, settings, chunk) ==
    IF with_ssml
    THEN [kind |-> "ssml", ssml |-> _construct_ssml(voice_id, settings, chunk)]
    ELSE [kind |-> "text", text |-> chunk]

\* the generator before _create_streaming_request_generator has made it
NoGenerator ==
    [created |-> FALSE, use_ssml |-> FALSE, config_request |-> None,
     text_chunks |-> <<>>, pos |-> 0]

\* lines 685-707 and 725: the closure of request_generator; nothing of its
\* body has run.  pos counts the requests the generator has yielded.
new_generator(voice_id, settings, t) ==
    [created        |-> TRUE,
     use_ssml       |-> use_ssml(voice_id),
     config_request |-> config_request(voice_id, settings),
     text_chunks    |-> _chunk_text(t),
     pos            |-> 0]

\* the generator has a request left to yield
has_next(g) == g.created /\ g.pos <= Len(g.text_chunks)

\* chunk_of_request with a fault: the first chunk is sent twice, the last never
chunk_of_request_stuck(g) == g.text_chunks[IF g.pos > 1 THEN g.pos - 1 ELSE 1]

\* line 712: the chunk of the request after the pos requests yielded so far
chunk_of_request(g) == g.text_chunks[g.pos]

\* lines 709-723: what request_generator yields next; the markup is built
\* when the request is asked for, from the service's state at that moment
next_request(g, voice_id, settings) ==
    IF g.pos = 0
    THEN g.config_request
    ELSE input_request(g.use_ssml, voice_id, settings, chunk_of_request(g))

\* _create_streaming_request_generator(text) of call c
CreateGenerator(c) ==
    /\ ~gen[c].created
    /\ gen' = [gen EXCEPT ![c] = new_generator(_voice_id, _settings, ctext[c])]
    /\ UNCHANGED <<chunk_vars, loop_vars, service_vars, ctext, sent, driver_vars>>

\* next(request_generator) of call c, by the consumer of the requests
NextRequest(c) ==
    /\ has_next(gen[c])
    /\ sent' = [sent EXCEPT ![c] =
                   Append(@, next_request(gen[c], _voice_id, _settings))]
    /\ gen' = [gen EXCEPT ![c].pos = @ + 1]
    /\ UNCHANGED <<chunk_vars, loop_vars, service_vars, ctext, driver_vars>>

-----------------------------------------------------------------------------
(* run_tts                                                                 *)
(*                                                                         *)
(* run_tts is an asynchronous generator: it runs from one suspension point *)
(* to the next, and each action below is one such run, or one answer of    *)
(* the remote endpoint.  It is suspended at every yield (until its caller  *)
(* asks for the next frame) and at the two awaits that wait: the executor  *)
(* of line 743 and the sleep of line 768.                                  *)

CHUNK_SIZE == 1024

\* len(response.audio_content) of the responses of the model: no audio,
\* less than one buffer, one buffer exactly, one buffer and a rest, two
\* buffers and a rest
PayloadLens == {0, 1, CHUNK_SIZE, CHUNK_SIZE + 1, 2 * CHUNK_SIZE + 1}

TTSStartedFrame == [op |-> "started"]

TTSStoppedFrame == [op |-> "stopped"]

ErrorFrame == [op |-> "error"]

\* TTSAudioRawFrame(chunk, self.sample_rate, 1), chunk being the bytes
\* lo..hi-1 of the audio of response number resp of the call
TTSAudioRawFrame(resp, lo, hi) ==
    [op |-> "audio", resp |-> resp, lo |-> lo, hi |-> hi,
     sample_rate |-> "self.sample_rate", num_channels |-> 1]

\* a call run_tts makes, or a signal it gets, that is not a frame
Did(op) == [op |-> op]

\* the operations of log that are frames yielded to the caller
FrameOps == {"started", "audio", "stopped", "error"}

\* where run_tts is suspended
SuspensionPoints ==
    {"start_yielded", "dispatch", "audio_yielded", "sleep", "stop_yielded",
     "error_yielded"}

\* except_catches with a fault: the handler catches nothing the call raises
except_catches_nothing(exc) == FALSE

\* line 772, except Exception: asyncio.CancelledError and GeneratorExit are
\* subclasses of BaseException only
except_catches(exc) == exc \notin {"CancelledError", "GeneratorExit"}

\* what the caller of run_tts sees of an exception that leaves the
\* generator: GeneratorExit is the generator's own closing
propagated(exc) == IF exc = "GeneratorExit" THEN "none" ELSE exc

\* cancel_delivered with a fault: run_tts goes on after its caller cancelled
cancel_ignored(pending) == FALSE

\* lines 734, 743, 767, 768, 770: a cancellation signalled while run_tts is
\* suspended is raised in it at the point where it is suspended
cancel_delivered(pending) == pending

\* ttfb_sent_of with a fault: the flag is an attribute of the service, one
\* for all its calls
ttfb_sent_of_service(c) == \E d \in Calls : ttfb_sent[d]

\* lines 748 and 752: ttfb_sent is a local variable of the call
ttfb_sent_of(c) == ttfb_sent[c]

\* initial_ttfb_sent with a fault: the flag is not set anew, it keeps what
\* the calls before left
initial_ttfb_sent_kept(c) == \E d \in Calls : ttfb_sent[d]

\* line 748: ttfb_sent = False
initial_ttfb_sent(c) == FALSE

\* should_stop_ttfb with a fault: the flag is not looked at
should_stop_ttfb_always(sent_already) == TRUE

\* line 752
should_stop_ttfb(sent_already) == ~sent_already

\* next_offset with a fault: the step of the range is twice the buffer size
next_offset_double(i) == i + 2 * CHUNK_SIZE

\* line 761: the next i of range(0, len(audio_content), CHUNK_SIZE)
next_offset(i) == i + CHUNK_SIZE

\* slice_end with a fault: the slice is not cut at the end of the payload
slice_end_unclipped(i, n) == i + CHUNK_SIZE

\* line 762: the bounds of audio_content[i : i + CHUNK_SIZE]
slice_end(i, n) == IF i + CHUNK_SIZE < n THEN i + CHUNK_SIZE ELSE n

\* after_catch with a fault: the handler goes back to line 743 and hands the
\* remote call to the executor again
after_catch_retry(new_log) == [pc |-> "dispatch", log |-> new_log]

\* lines 772-775: the handler yields an ErrorFrame, and nothing of the try
\* is run again
after_catch(new_log) ==
    [pc |-> "error_yielded", log |-> Append(new_log, ErrorFrame)]

\* in_try with a fault: the try begins after the calls of the metrics
in_try_after_metrics(at) == at \notin {"idle", "error_yielded"}

\* lines 730-770: every statement of run_tts from the calls of the metrics
\* to the stop frame stands inside the try; the handler does not
in_try(at) == at # "error_yielded"

\* exc is raised inside the try of lines 730-770, after the operations that
\* made the log new_log: lines 772-775 yield an ErrorFrame if the handler
\* catches it, else it leaves the generator
Throw(c, exc, new_log) ==
    IF in_try(pc[c]) /\ except_catches(exc)
    THEN /\ log' = [log EXCEPT ![c] = after_catch(new_log).log]
         /\ pc' = [pc EXCEPT ![c] = after_catch(new_log).pc]
         /\ UNCHANGED raised
    ELSE /\ log' = [log EXCEPT ![c] = new_log]
         /\ pc' = [pc EXCEPT ![c] = "ended"]
         /\ raised' = [raised EXCEPT ![c] = propagated(exc)]

\* metrics_calls with a fault: the usage of the text is not recorded
metrics_calls_timer_only == <<Did("start_ttfb")>>

\* lines 731-732: start_ttfb_metrics(), then start_tts_usage_metrics(text)
metrics_calls == <<Did("start_ttfb"), Did("usage")>>

\* lines 730-734: the metrics are started and the start frame is yielded;
\* either call of the metrics may raise
Start(c) ==
    /\ pc[c] = "idle"
    /\ \E f \in {"none", "ttfb", "usage"} :
          /\ failure' = [failure EXCEPT ![c] = f]
          /\ CASE f = "ttfb" ->
                    Throw(c, "Exception", Append(log[c], Did("start_ttfb")))
               [] f = "usage" ->
                    Throw(c, "Exception", log[c] \o metrics_calls)
               [] f = "none" ->
                    /\ log' = [log EXCEPT ![c] =
                                  @ \o metrics_calls \o <<TTSStartedFrame>>]
                    /\ pc' = [pc EXCEPT ![c] = "start_yielded"]
                    /\ UNCHANGED raised
    /\ UNCHANGED <<chunk_vars, loop_vars, service_vars, request_vars, responses,
                   ttfb_sent, offset, cancel_pending>>

\* lines 737-743: the request generator is made (the text is chunked, which
\* may raise) and the remote call is handed to the executor
Build(c) ==
    /\ pc[c] = "start_yielded"
    /\ IF cancel_delivered(cancel_pending[c])
       THEN /\ Throw(c, "GeneratorExit", log[c])
            /\ UNCHANGED <<gen, failure>>
       ELSE \E ok \in BOOLEAN :
               IF ok
               THEN /\ gen' = [gen EXCEPT ![c] =
                                  new_generator(_voice_id, _settings, ctext[c])]
                    /\ pc' = [pc EXCEPT ![c] = "dispatch"]
                    /\ UNCHANGED <<log, failure, raised>>
               ELSE /\ failure' = [failure EXCEPT ![c] = "chunking"]
                    /\ Throw(c, "Exception", log[c])
                    /\ UNCHANGED gen
    /\ UNCHANGED <<chunk_vars, loop_vars, service_vars, ctext, sent, responses, ttfb_sent,
                   offset, cancel_pending>>

\* lines 743-748: the executor has run self._client.streaming_synthesize,
\* which returned the response stream or raised, and run_tts resumes
Open(c) ==
    /\ pc[c] = "dispatch"
    /\ IF cancel_delivered(cancel_pending[c])
       THEN /\ Throw(c, "CancelledError", log[c])
            /\ UNCHANGED <<failure, ttfb_sent>>
       ELSE \E ok \in BOOLEAN :
               IF ok
               THEN /\ log' = [log EXCEPT ![c] = Append(@, Did("open"))]
                    /\ pc' = [pc EXCEPT ![c] = "receive"]
                    /\ ttfb_sent' = [ttfb_sent EXCEPT ![c] = initial_ttfb_sent(c)]
                    /\ UNCHANGED <<failure, raised>>
               ELSE /\ failure' = [failure EXCEPT ![c] = "open"]
                    /\ Throw(c, "Exception", Append(log[c], Did("open")))
                    /\ UNCHANGED ttfb_sent
    /\ UNCHANGED <<chunk_vars, loop_vars, service_vars, request_vars, responses, offset,
                   cancel_pending>>

\* lines 751-757 and 770: the for loop asks the stream for its next
\* response; the stream gives one, ends, or raises
Receive(c) ==
    /\ pc[c] = "receive"
    /\ \/ \E n \in PayloadLens :
             /\ Len(responses[c]) < MaxResponses
             /\ responses' = [responses EXCEPT ![c] = Append(@, n)]
             /\ log' = [log EXCEPT ![c] =
                           @ \o <<[op |-> "response",
                                   resp |-> Len(responses[c]) + 1]>>
                             \o (IF should_stop_ttfb(ttfb_sent_of(c))
                                 THEN <<Did("stop_ttfb")>>
                                 ELSE <<>>)]
             /\ ttfb_sent' = [ttfb_sent EXCEPT ![c] = TRUE]
             /\ offset' = [offset EXCEPT ![c] = 0]
             /\ pc' = [pc EXCEPT ![c] = IF 0 < n THEN "emit" ELSE "receive"]
             /\ UNCHANGED <<failure, raised>>
       \/ /\ log' = [log EXCEPT ![c] =
                        @ \o <<Did("exhausted"), TTSStoppedFrame>>]
          /\ pc' = [pc EXCEPT ![c] = "stop_yielded"]
          /\ UNCHANGED <<responses, ttfb_sent, offset, failure, raised>>
       \/ /\ failure' = [failure EXCEPT ![c] = "response"]
          /\ Throw(c, "Exception", log[c])
          /\ UNCHANGED <<responses, ttfb_sent, offset>>
    /\ UNCHANGED <<chunk_vars, loop_vars, service_vars, request_vars, cancel_pending>>

\* lines 762-767: the next buffer of the response is cut and yielded
Emit(c) ==
    /\ pc[c] = "emit"
    /\ LET n  == responses[c][Len(responses[c])]
           lo == offset[c]
           hi == slice_end(offset[c], n)
       IN  IF lo >= hi
           THEN /\ pc' = [pc EXCEPT ![c] = "receive"]
                /\ UNCHANGED log
           ELSE /\ log' = [log EXCEPT ![c] =
                              Append(@, TTSAudioRawFrame(Len(responses[c]), lo, hi))]
                /\ pc' = [pc EXCEPT ![c] = "audio_yielded"]
    /\ UNCHANGED <<chunk_vars, loop_vars, service_vars, request_vars, responses,
                   ttfb_sent, offset, cancel_pending, failure, raised>>

\* lines 767-768: the caller asks for the next frame and run_tts goes to
\* sleep
AfterAudio(c) ==
    /\ pc[c] = "audio_yielded"
    /\ IF cancel_delivered(cancel_pending[c])
       THEN Throw(c, "GeneratorExit", log[c])
       ELSE /\ pc' = [pc EXCEPT ![c] = "sleep"]
            /\ UNCHANGED <<log, raised>>
    /\ UNCHANGED <<chunk_vars, loop_vars, service_vars, request_vars, responses,
                   ttfb_sent, offset, cancel_pending, failure>>

\* lines 768 and 761: the sleep is over and the range gives its next i
Wake(c) ==
    /\ pc[c] = "sleep"
    /\ IF cancel_delivered(cancel_pending[c])
       THEN /\ Throw(c, "CancelledError", log[c])
            /\ UNCHANGED offset
       ELSE /\ offset' = [offset EXCEPT ![c] = next_offset(@)]
            /\ pc' = [pc EXCEPT ![c] =
                         IF next_offset(offset[c]) < responses[c][Len(responses[c])]
                         THEN "emit"
                         ELSE "receive"]
            /\ UNCHANGED <<log, raised>>
    /\ UNCHANGED <<chunk_vars, loop_vars, service_vars, request_vars, responses,
                   ttfb_sent, cancel_pending, failure>>

\* lines 770 and 775: the caller asks for the frame after the stop frame or
\* the error frame, and run_tts returns
Finish(c) ==
    /\ pc[c] \in {"stop_yielded", "error_yielded"}
    /\ IF cancel_delivered(cancel_pending[c])
       THEN Throw(c, "GeneratorExit", log[c])
       ELSE /\ pc' = [pc EXCEPT ![c] = "done"]
            /\ UNCHANGED <<log, raised>>
    /\ UNCHANGED <<chunk_vars, loop_vars, service_vars, request_vars, responses,
                   ttfb_sent, offset, cancel_pending, failure>>

\* the caller of run_tts is cancelled while run_tts is suspended
CancelSignal(c) ==
    /\ pc[c] \in SuspensionPoints
    /\ ~cancel_pending[c]
    /\ cancel_pending' = [cancel_pending EXCEPT ![c] = TRUE]
    /\ log' = [log EXCEPT ![c] = Append(@, Did("cancel"))]
    /\ UNCHANGED <<chunk_vars, loop_vars, service_vars, request_vars, pc, responses,
                   ttfb_sent, offset, failure, raised>>

\* Where run_tts holds the thread of the event loop without being
\* suspended: in the for statement of line 751, which calls next() of the
\* response stream on that thread and returns when the remote endpoint has
\* answered, and between a response and the yield of its first buffer.
OnLoop == {"receive", "emit"}

\* no call of run_tts holds the thread of the event loop
LoopIdle == \A c \in Calls : pc[c] \notin OnLoop

\* Another task of the event loop (the audio input of the transport, the
\* handling of an interruption) runs one step: the loop gives it the thread
\* when the task that ran before is suspended.
OtherTask ==
    /\ LoopIdle
    /\ captured < MaxCaptured
    /\ captured' = captured + 1
    /\ UNCHANGED <<chunk_vars, service_vars, request_vars, driver_vars>>

\* streaming_synthesize has been called and has not raised
opened(c) ==
    /\ failure[c] # "open"
    /\ \E k \in 1..Len(log[c]) : log[c][k].op = "open"

\* line 745: the remote call takes the next request of the generator it
\* was given
PullRequest(c) == opened(c) /\ NextRequest(c)

-----------------------------------------------------------------------------
(* The service as constructed, and the request builder on its own *)

\* the voice identifiers of the model: the default one, one that names no
\* voice family, and the next-generation families in two spellings
VoiceNeural == <<"e", "n", "-", "U", "S", "-", "N", "e", "u", "r", "a", "l", "2", "-", "A">>

VoiceAoede == <<"A", "o", "e", "d", "e">>

VoiceChirp == <<"e", "n", "-", "U", "S", "-", "C", "h", "i", "r", "p", "-", "H", "D", "-", "F">>

VoiceChirpUpper == <<"E", "N", "-", "U", "S", "-", "C", "H", "I", "R", "P", "3">>

VoiceJourney == <<"e", "n", "-", "U", "S", "-", "J", "o", "u", "r", "n", "e", "y", "-", "D">>

Voices == {VoiceNeural, VoiceAoede, VoiceChirp, VoiceChirpUpper, VoiceJourney}

\* the InputParams of the model: every optional setting absent or present,
\* the language configured, not configured, or not in language_map
ParamsSet ==
    [pitch        : {None, Some(<<"+2st">>)},
     rate         : {None, Some(<<"fast">>)},
     volume       : {None, Some(<<"loud">>)},
     emphasis     : {None, Some(<<"strong">>)},
     language     : {"None", "EN", "AZ"},
     gender       : {None, Some(<<"female">>)},
     google_style : {None, Some(<<"calm">>)}]

\* InputParams() (lines 205-214): nothing set, the language Language.EN
DefaultParams ==
    [pitch |-> None, rate |-> None, volume |-> None, emphasis |-> None,
     language |-> "EN", gender |-> None, google_style |-> None]

\* the texts handed to the request builder: none, whitespace, one chunk,
\* two chunks of one sentence, two sentences
RequestTexts ==
    {<<>>,
     <<" ">>,
     <<"a", " ", "b">>,
     <<"a", " ", "b", " ", "c", " ", "d">>,
     <<"a", ".", " ", "b", "!">>}

\* run_tts not called
DriverIdle ==
    /\ pc = [c \in Calls |-> "idle"]
    /\ log = [c \in Calls |-> <<>>]
    /\ responses = [c \in Calls |-> <<>>]
    /\ ttfb_sent = [c \in Calls |-> FALSE]
    /\ offset = [c \in Calls |-> 0]
    /\ cancel_pending = [c \in Calls |-> FALSE]
    /\ failure = [c \in Calls |-> "none"]
    /\ raised = [c \in Calls |-> "none"]
    /\ captured = 0

\* the variables of the chunker when it is not under study
ChunkerIdle == text = <<>> /\ chunks = <<>> /\ cpc = "idle"

\* the per-call variables before run_tts is called
CallsIdle ==
    /\ ctext = [c \in Calls |-> <<>>]
    /\ gen = [c \in Calls |-> NoGenerator]
    /\ sent = [c \in Calls |-> <<>>]
    /\ DriverIdle

\* __init__ has returned: the client was made from the credentials of the
\* environment
ClientReady ==
    /\ credentials = None
    /\ credentials_path = None
    /\ _client = TextToSpeechClient("default")
    /\ construction =
          [state     |-> "constructed",
           consulted |-> <<[source |-> "default", outcome |-> "creds"]>>,
           error     |-> "none"]

\* __init__ (lines 228-241)
ServiceInit ==
    /\ _voice_id \in Voices
    /\ \E params \in ParamsSet : _settings = init_settings(params)
    /\ ClientReady

RequestInit ==
    /\ ChunkerIdle
    /\ ServiceInit
    /\ \E t \in RequestTexts : ctext = [c \in Calls |-> IF c = 1 THEN t ELSE <<>>]
    /\ gen = [c \in Calls |-> NoGenerator]
    /\ sent = [c \in Calls |-> <<>>]
    /\ DriverIdle

RequestNext == CreateGenerator(1) \/ NextRequest(1)

SpecReq == RequestInit /\ [][RequestNext]_vars

-----------------------------------------------------------------------------
(* The request builder while the voice of the service is changed *)

\* set_voice(voice) (called at line 240, and by whoever changes the voice of
\* the running service): self._voice_id is assigned.  The requests of a call
\* are taken from its generator by the remote call, on another thread than
\* the event loop, so the assignment can fall between any two of them.
SetVoice(voice) ==
    /\ _voice_id # voice
    /\ _voice_id' = voice
    /\ UNCHANGED <<chunk_vars, loop_vars, _settings, credentials,
                   credentials_path, _client, construction, request_vars,
                   driver_vars>>

VoiceInit ==
    /\ ChunkerIdle
    /\ _voice_id \in Voices
    /\ _settings = init_settings(DefaultParams)
    /\ ClientReady
    /\ \E t \in RequestTexts : ctext = [c \in Calls |-> IF c = 1 THEN t ELSE <<>>]
    /\ gen = [c \in Calls |-> NoGenerator]
    /\ sent = [c \in Calls |-> <<>>]
    /\ DriverIdle

VoiceNext ==
    \/ CreateGenerator(1)
    \/ NextRequest(1)
    \/ \E voice \in Voices : SetVoice(voice)

SpecVoice == VoiceInit /\ [][VoiceNext]_vars

-----------------------------------------------------------------------------
(* The construction of the service *)

\* the credential arguments of the model: not given, empty, given
CredentialArgs == {None, Some(<<>>), Some(<<"{...}">>)}

CredentialPathArgs == {None, Some(<<>>), Some(<<"sa.json">>)}

\* __init__ not called yet: the object has no attributes
ConstructInit ==
    /\ ChunkerIdle
    /\ CallsIdle
    /\ credentials \in CredentialArgs
    /\ credentials_path \in CredentialPathArgs
    /\ _voice_id = <<>>
    /\ _settings = None
    /\ _client = NoClient
    /\ construction = [state |-> "new", consulted |-> <<>>, error |-> "none"]

\* __init__ (lines 216-241): the settings, the voice, then the client; an
\* exception of _create_client leaves __init__
Construct ==
    /\ construction.state = "new"
    /\ \E voice_id \in Voices, params \in ParamsSet,
          outcome \in Outcomes(source_of(credentials, credentials_path)) :
          LET made == _create_client(credentials, credentials_path, outcome) IN
          /\ _settings' = init_settings(params)
          /\ _voice_id' = voice_id
          /\ _client' = made.client
          /\ construction' =
                [state     |-> IF made.error = "none"
                               THEN "constructed" ELSE "failed",
                 consulted |-> made.consulted,
                 error     |-> made.error]
    /\ UNCHANGED <<chunk_vars, loop_vars, credentials, credentials_path, request_vars,
                   driver_vars>>

ConstructNext == Construct

SpecConstruct == ConstructInit /\ [][ConstructNext]_vars

-----------------------------------------------------------------------------
(* One call of run_tts *)

\* the texts handed to run_tts: none, and one of two chunks
DriverTexts == {<<>>, <<"a", " ", "b", " ", "c", " ", "d">>}

Init ==
    /\ ChunkerIdle
    /\ _voice_id \in {VoiceNeural, VoiceChirp}
    /\ _settings = init_settings(DefaultParams)
    /\ ClientReady
    /\ \E t \in DriverTexts : ctext = [c \in Calls |-> IF c = 1 THEN t ELSE <<>>]
    /\ gen = [c \in Calls |-> NoGenerator]
    /\ sent = [c \in Calls |-> <<>>]
    /\ DriverIdle

Next ==
    \/ Start(1)
    \/ Build(1)
    \/ Open(1)
    \/ Receive(1)
    \/ Emit(1)
    \/ AfterAudio(1)
    \/ Wake(1)
    \/ Finish(1)
    \/ CancelSignal(1)
    \/ PullRequest(1)
    \/ OtherTask

Spec == Init /\ [][Next]_vars

-----------------------------------------------------------------------------
(* Two calls of run_tts on one service, interleaved by the event loop *)

\* the event loop can run call c: no other call holds its thread
LoopFreeFor(c) == \A d \in Calls \ {c} : pc[d] \notin OnLoop

PairText == <<"a", " ", "b">>

\* the payloads the remote endpoint sends in this specification: no audio,
\* and one buffer and a rest
PairPayloadLens == {0, CHUNK_SIZE + 1}

PairInit ==
    /\ ChunkerIdle
    /\ _voice_id = VoiceNeural
    /\ _settings = init_settings(DefaultParams)
    /\ ClientReady
    /\ ctext = [c \in Calls |-> PairText]
    /\ gen = [c \in Calls |-> NoGenerator]
    /\ sent = [c \in Calls |-> <<>>]
    /\ DriverIdle

PairNext ==
    \E c \in Calls :
        /\ LoopFreeFor(c)
        /\ \/ Start(c)
           \/ Build(c)
           \/ Open(c)
           \/ Receive(c)
           \/ Emit(c)
           \/ AfterAudio(c)
           \/ Wake(c)
           \/ Finish(c)
        /\ \A r \in 1..Len(responses'[c]) : responses'[c][r] \in PairPayloadLens

SpecPair == PairInit /\ [][PairNext]_vars

-----------------------------------------------------------------------------
(* A call of run_tts after a call that ended with an error frame *)

\* call c has yielded an error frame and has returned
EndedWithError(c) == pc[c] = "done" /\ \E k \in 1..Len(log[c]) : log[c][k].op = "error"

\* call 1, and call 2 once call 1 has ended with an error frame
RecoverNext ==
    \E c \in Calls :
        /\ c = 2 => EndedWithError(1)
        /\ \/ Start(c)
           \/ Build(c)
           \/ Open(c)
           \/ Receive(c)
           \/ Emit(c)
           \/ AfterAudio(c)
           \/ Wake(c)
           \/ Finish(c)
           \/ PullRequest(c)
        /\ \A r \in 1..Len(responses'[c]) : responses'[c][r] \in PairPayloadLens

SpecRecover == PairInit /\ [][RecoverNext]_vars

-----------------------------------------------------------------------------
(* The chunker applied to every text of a bounded set *)

\* words, spaces and line ends: long enough texts to fill several chunks
WordAlphabet == {"a", " ", "\n"}

\* every class of character the chunker tells apart: alphanumeric, space,
\* newline, sentence boundary, apostrophe, closing character, and the
\* Devanagari full stop
PunctAlphabet == {"a", " ", "\n", ".", "|", "'", ")", Danda}

RECURSIVE TextsUpTo(_, _)
TextsUpTo(S, n) ==
    IF n = 0
    THEN {<<>>}
    ELSE LET shorter == TextsUpTo(S, n - 1) IN
         shorter \cup {Append(s, c) : s \in {x \in shorter : Len(x) = n - 1}, c \in S}

\* texts longer than the bounds: two sentences of two and of three words,
\* each with its final punctuation ("ab c. a b c?"); a sentence of three
\* words and a full stop; a sentence of two words; closing characters after
\* a full stop and after a newline; a sentence of two words and one of four
ExampleTexts ==
    {<<"a", "b", " ", "c", ".", " ", "a", " ", "b", " ", "c", "?">>,
     <<"a", " ", "b", " ", "c", ".">>,
     <<"a", "b", " ", "c", "d", ".">>,
     <<"a", ".", "'", ")", "\n", "'", "b">>,
     <<"a", " ", "b", ".", " ", "a", " ", "b", " ", "c", " ", "d", ".">>}

ChunkInit ==
    /\ text \in TextsUpTo(WordAlphabet, MaxTextLen)
                 \cup TextsUpTo(PunctAlphabet, MaxPunctLen)
                 \cup ExampleTexts
    /\ chunks = <<>>
    /\ cpc = "start"
    /\ _voice_id = VoiceNeural
    /\ _settings = init_settings(DefaultParams)
    /\ ClientReady
    /\ CallsIdle

ChunkText ==
    /\ cpc = "start"
    /\ chunks' = _chunk_text(text)
    /\ cpc' = "done"
    /\ UNCHANGED <<text, service_vars, request_vars, driver_vars, loop_vars>>

ChunkNext == ChunkText

SpecChunk == ChunkInit /\ [][ChunkNext]_vars

-----------------------------------------------------------------------------
(* Properties of _chunk_text *)

RECURSIVE Concat(_)
Concat(ss) == IF ss = <<>> THEN <<>> ELSE Head(ss) \o Concat(Tail(ss))

\* a chunk without its last character
StripLast(c) == SubSeq(c, 1, Len(c) - 1)

\* a character of a word token: alphanumeric or apostrophe
IsWordChar(c) == isalnum(c) \/ c = "'"

\* the real words of a chunk: the maximal runs of word characters that hold
\* an alphanumeric character, each named by the index of its first character
RealWords(c) ==
    {k \in 1..Len(c) :
        /\ IsWordChar(c[k])
        /\ (k = 1 \/ ~IsWordChar(c[k - 1]))
        /\ \E m \in k..Len(c) :
              /\ isalnum(c[m])
              /\ \A j \in k..m : IsWordChar(c[j])}

\* the text does not end with a terminated sentence: its last sentence is
\* the remainder flushed at the end of the text, which holds no terminator
EndsMidSentence(t) ==
    /\ t # <<>>
    /\ LET s == split_sentences(t)
           last == s[Len(s)]
       IN  \A k \in 1..Len(last) : last[k] \notin sentence_boundaries

\* C1 (as claimed): stripping one trailing space from every chunk and
\* concatenating the results gives back the text.
C1_Reconstructs ==
    cpc = "done" =>
        Concat([n \in 1..Len(chunks) |-> StripLast(chunks[n])]) = text

\* C2 (as claimed): every chunk ends with exactly one space: its last
\* character is a space and the one before it, if any, is not.
C2_ExactlyOneTrailingSpace ==
    cpc = "done" =>
        \A n \in 1..Len(chunks) :
            /\ endswith_space(chunks[n])
            /\ Len(chunks[n]) > 1 => chunks[n][Len(chunks[n]) - 1] # " "

\* C2 (amended): every chunk, the last chunk of the last sentence included,
\* is not empty and ends with a space.
C2_EndsWithSpace ==
    cpc = "done" => \A n \in 1..Len(chunks) : endswith_space(chunks[n])

\* C2 witness: a text chunked into several chunks, one of which did not end
\* with a space before the final cleanup, and one of which ends with two.
C2_Witness ==
    /\ cpc = "done"
    /\ Len(chunks) >= 2
    /\ \E n \in 1..Len(chunks) :
          ~endswith_space(sentence_chunks(split_sentences(text), 1, <<>>)[n])
    /\ \E n \in 1..Len(chunks) :
          /\ Len(chunks[n]) > 1
          /\ chunks[n][Len(chunks[n]) - 1] = " "

\* C3: every chunk, except the last chunk of a text that ends mid-sentence,
\* holds at most MAX_WORDS_PER_CHUNK real words.
C3_AtMostMaxWords ==
    cpc = "done" =>
        \A n \in 1..Len(chunks) :
            \/ n = Len(chunks) /\ EndsMidSentence(text)
            \/ Cardinality(RealWords(chunks[n])) <= MAX_WORDS_PER_CHUNK

\* C3 witness: a sentence of more than MAX_WORDS_PER_CHUNK words, whose
\* first chunk was closed at exactly MAX_WORDS_PER_CHUNK words.
C3_Witness ==
    /\ cpc = "done"
    /\ Cardinality(RealWords(text)) > MAX_WORDS_PER_CHUNK
    /\ Len(split_sentences(text)) = 1
    /\ ~EndsMidSentence(text)
    /\ Len(chunks) >= 2
    /\ Cardinality(RealWords(chunks[1])) = MAX_WORDS_PER_CHUNK

\* the characters said to end a sentence
ClaimedTerminators == {".", "!", "?", Danda, "\n"}

\* C20 (as claimed): a sentence ends at every '.', '!', '?', Devanagari full
\* stop and newline (after the closing character that follows it, if one
\* was taken in), and at no other character: a terminator stands nowhere but
\* at the end of its sentence, and every sentence but the last ends with one.
C20_SentenceTerminators ==
    cpc = "done" =>
        LET s == split_sentences(text) IN
        \A n \in 1..Len(s) :
            LET last == Len(s[n]) IN
            /\ \A k \in 1..last :
                  s[n][k] \in ClaimedTerminators =>
                      \/ k = last
                      \/ k = last - 1 /\ s[n][last] \in closing_chars
            /\ n < Len(s) =>
                  \/ s[n][last] \in ClaimedTerminators
                  \/ /\ last > 1
                     /\ s[n][last] \in closing_chars
                     /\ s[n][last - 1] \in ClaimedTerminators

\* the tokens of token list T that count as real words, by index
RealWordTokens(T) == {j \in 1..Len(T) : is_real_word(T[j])}

\* the text is one sentence with at least MAX_WORDS_PER_CHUNK real words,
\* and the token after the one that fills the first chunk is whitespace
ClosesBeforeWhitespace(t) ==
    /\ Len(split_sentences(t)) = 1
    /\ LET T == tokenize(t) IN
       \E i \in RealWordTokens(T) :
           /\ Cardinality({j \in RealWordTokens(T) : j <= i}) = MAX_WORDS_PER_CHUNK
           /\ i + 1 <= Len(T)
           /\ isspace(T[i + 1])

\* the token that fills the first chunk of the one sentence of t
FillingToken(t) ==
    LET T == tokenize(t) IN
    CHOOSE i \in RealWordTokens(T) :
        Cardinality({j \in RealWordTokens(T) : j <= i}) = MAX_WORDS_PER_CHUNK

\* C21 (as claimed): when the first chunk of a sentence is closed at its
\* third real word and the next token is whitespace, the chunk is the tokens
\* up to and with that whitespace token, and the token is not put out again:
\* with no token after it there is no second chunk, and else the second
\* chunk begins with the tokens that follow it.
C21_WhitespaceConsumedOnce ==
    (cpc = "done" /\ ClosesBeforeWhitespace(text)) =>
        LET T    == tokenize(text)
            i    == FillingToken(text)
            rest == Concat(SubSeq(T, i + 2, Len(T)))
        IN  /\ chunks[1] = Concat(SubSeq(T, 1, i + 1))
            /\ rest = <<>> => Len(chunks) = 1
            /\ rest # <<>> =>
                  /\ Len(chunks) >= 2
                  /\ \A k \in 1..Len(chunks[2]) - 1 :
                        k <= Len(rest) => chunks[2][k] = rest[k]

\* C22 (as claimed): when every sentence of the text holds a real word,
\* every chunk holds a real word: no chunk is made of punctuation and
\* whitespace only.
C22_EveryChunkHasWord ==
    (/\ cpc = "done"
     /\ \A n \in 1..Len(split_sentences(text)) :
           RealWords(split_sentences(text)[n]) # {}) =>
        \A n \in 1..Len(chunks) : RealWords(chunks[n]) # {}

\* the positions of t at which a sentence of t ends
SentenceEnds(t) ==
    {Len(Concat(SubSeq(split_sentences(t), 1, n))) :
        n \in 1..Len(split_sentences(t))}

\* closing quotes and closing brackets
Closers == {"\"", "'", ")", "]", "}"}

\* position p of t holds a character of the set terminators, and a closing
\* character follows it
CloserFollows(t, p, terminators) ==
    /\ p + 1 <= Len(t)
    /\ t[p] \in terminators
    /\ t[p + 1] \in Closers

\* C23 (as claimed): after every terminator, newline included, that a
\* closing character follows, the sentence ends with that closing character
\* and not before it.
C23_CloserAbsorbedAfterAny ==
    cpc = "done" =>
        \A p \in 1..Len(text) :
            CloserFollows(text, p, {".", "!", "?", "|", "\n"}) =>
                /\ p \notin SentenceEnds(text)
                /\ p + 1 \in SentenceEnds(text)

\* C23 (amended): after '.', '!', '?' and '|', when a closing character
\* follows, the sentence ends with that one closing character, and the
\* character after it belongs to the next sentence; a newline ends its
\* sentence at once, and a closing character after it begins the next one.
C23_CloserAbsorbedButAfterNewline ==
    cpc = "done" =>
        \A p \in 1..Len(text) :
            /\ CloserFollows(text, p, {".", "!", "?", "|"}) =>
                  /\ p \notin SentenceEnds(text)
                  /\ p + 1 \in SentenceEnds(text)
            /\ text[p] = "\n" => p \in SentenceEnds(text)

\* C23 witness: a text with a full stop and two closing characters after
\* it, and with a newline and a closing character after it.
C23_Witness ==
    /\ cpc = "done"
    /\ \E p \in 1..Len(text) :
          /\ CloserFollows(text, p, {"."})
          /\ CloserFollows(text, p + 1, Closers)
    /\ \E p \in 1..Len(text) : CloserFollows(text, p, {"\n"})

\* the number of chunks the grouping loop makes of sentence s
GroupSize(s) == Len(group_loop(tokenize(s), 1, <<>>, 0, <<>>))

\* the number of chunks of the sentences before sentence n
RECURSIVE ChunksBefore(_, _)
ChunksBefore(S, n) ==
    IF n <= 1 THEN 0 ELSE ChunksBefore(S, n - 1) + GroupSize(S[n - 1])

\* the chunk is a piece of the sentence, but for a space added at its end
BuiltFrom(chunk, s) == contains(chunk, s) \/ contains(StripLast(chunk), s)

RECURSIVE SumOver(_, _)
SumOver(f, n) == IF n = 0 THEN 0 ELSE f[n] + SumOver(f, n - 1)

\* C24: the chunks are, sentence after sentence, the chunks of that
\* sentence: every sentence has at least one chunk of its own, each of its
\* chunks is a piece of that sentence alone, its chunks hold its real words
\* and no word of another sentence, and a sentence of fewer than
\* MAX_WORDS_PER_CHUNK real words has exactly one chunk.
C24_ChunksWithinSentence ==
    cpc = "done" =>
        LET S == split_sentences(text) IN
        /\ Len(chunks) = ChunksBefore(S, Len(S) + 1)
        /\ \A n \in 1..Len(S) :
              LET first == ChunksBefore(S, n) + 1
                  last  == ChunksBefore(S, n + 1)
              IN  /\ first <= last
                  /\ last <= Len(chunks)
                  /\ \A k \in first..last :
                        k <= Len(chunks) => BuiltFrom(chunks[k], S[n])
                  /\ last <= Len(chunks) =>
                        SumOver([k \in 1..last - first + 1 |->
                                    Cardinality(RealWords(chunks[first + k - 1]))],
                                last - first + 1)
                            = Cardinality(RealWords(S[n]))
                  /\ Cardinality(RealWords(S[n])) < MAX_WORDS_PER_CHUNK =>
                        first = last

\* C24 witness: a sentence of two words is followed by a sentence of more
\* than MAX_WORDS_PER_CHUNK words; the first has one chunk, the second
\* several.
C24_Witness ==
    /\ cpc = "done"
    /\ Len(split_sentences(text)) = 2
    /\ Cardinality(RealWords(split_sentences(text)[1])) = 2
    /\ Cardinality(RealWords(split_sentences(text)[2])) > MAX_WORDS_PER_CHUNK
    /\ GroupSize(split_sentences(text)[1]) = 1
    /\ Len(chunks) >= 3

-----------------------------------------------------------------------------
(* Properties of the request builder *)

\* the identifier holds the marker, each letter in either case
HasMarkerAnyCase(marker, voice_id) ==
    \E k \in 0..Len(voice_id) :
        /\ k + Len(marker) <= Len(voice_id)
        /\ \A j \in 1..Len(marker) :
              \E n \in 1..Len(LowerCase) :
                  /\ LowerCase[n] = marker[j]
                  /\ voice_id[k + j] \in {LowerCase[n], UpperCase[n]}

\* the requests after the configuration request
InputRequests(c) == SubSeq(sent[c], 2, Len(sent[c]))

\* C8: the requests yielded so far are the Config request, with the voice
\* name and the language tag, and then the requests of the chunks of
\* _chunk_text(text), one per chunk and in chunk order; once the generator is
\* exhausted there is one request for every chunk.
C8_RequestSequence ==
    \A c \in Calls :
        gen[c].created =>
            LET cs == _chunk_text(ctext[c]) IN
            /\ Len(sent[c]) <= 1 + Len(cs)
            /\ ~has_next(gen[c]) => Len(sent[c]) = 1 + Len(cs)
            /\ Len(sent[c]) >= 1 =>
                  sent[c][1] = [kind          |-> "config",
                                language_code |-> _settings.language,
                                name          |-> _voice_id]
            /\ \A k \in 2..Len(sent[c]) :
                  \/ /\ sent[c][k].kind = "text"
                     /\ sent[c][k].text = cs[k - 1]
                  \/ /\ sent[c][k].kind = "ssml"
                     /\ sent[c][k].ssml =
                            _construct_ssml(_voice_id, _settings, cs[k - 1])

\* C8 witness: the generator of a text of several chunks is exhausted.
C8_Witness ==
    /\ gen[1].created
    /\ ~has_next(gen[1])
    /\ Len(gen[1].text_chunks) >= 2
    /\ Len(sent[1]) = 1 + Len(gen[1].text_chunks)

\* C9: with "chirp" in the voice identifier, in any letter case, every input
\* request is a plain-text input that carries its chunk verbatim.
C9_ChirpPlainText ==
    \A c \in Calls :
        HasMarkerAnyCase(chirp, _voice_id) =>
            \A k \in 1..Len(InputRequests(c)) :
                /\ InputRequests(c)[k].kind = "text"
                /\ InputRequests(c)[k].text = _chunk_text(ctext[c])[k]

\* C9 witness: every chunk of a text of several chunks has been sent for a
\* voice that spells the marker in capitals.
C9_Witness ==
    /\ HasMarkerAnyCase(chirp, _voice_id)
    /\ ~contains(chirp, _voice_id)
    /\ ~has_next(gen[1])
    /\ Len(InputRequests(1)) >= 2

\* C10: with neither marker in the voice identifier, every input request is
\* a markup input whose content is _construct_ssml of its chunk.
C10_MarkupForOtherVoices ==
    \A c \in Calls :
        (~HasMarkerAnyCase(chirp, _voice_id)
            /\ ~HasMarkerAnyCase(journey, _voice_id)) =>
            \A k \in 1..Len(InputRequests(c)) :
                /\ InputRequests(c)[k].kind = "ssml"
                /\ InputRequests(c)[k].ssml =
                       _construct_ssml(_voice_id, _settings,
                                       _chunk_text(ctext[c])[k])

\* C10 witness: every chunk of a text of several chunks has been sent for
\* the default voice, with a wrapper tag of the settings around it.
C10_Witness ==
    /\ _voice_id = VoiceNeural
    /\ truthy(_settings.emphasis)
    /\ ~has_next(gen[1])
    /\ Len(InputRequests(1)) >= 2

\* C28: with "journey" in the voice identifier, in any letter case, every
\* input request is a plain-text input that carries its chunk verbatim, as
\* for a "chirp" voice; a markup input is sent only for an identifier that
\* holds neither marker.
C28_JourneyPlainText ==
    \A c \in Calls :
        /\ HasMarkerAnyCase(journey, _voice_id) =>
              \A k \in 1..Len(InputRequests(c)) :
                  /\ InputRequests(c)[k].kind = "text"
                  /\ InputRequests(c)[k].text = _chunk_text(ctext[c])[k]
        /\ \A k \in 1..Len(InputRequests(c)) :
              InputRequests(c)[k].kind = "ssml" =>
                  /\ ~HasMarkerAnyCase(chirp, _voice_id)
                  /\ ~HasMarkerAnyCase(journey, _voice_id)

\* C28 witness: every chunk of a text of several chunks has been sent as
\* plain text for a voice that spells "Journey" with a capital.
C28_Witness ==
    /\ HasMarkerAnyCase(journey, _voice_id)
    /\ ~contains(journey, _voice_id)
    /\ ~HasMarkerAnyCase(chirp, _voice_id)
    /\ ~has_next(gen[1])
    /\ Len(InputRequests(1)) >= 2
    /\ \A k \in 1..Len(InputRequests(1)) : InputRequests(1)[k].kind = "text"

\* the tags a piece of a markup string opens or closes, in order
TagEvents(piece) ==
    CASE piece = "<speak>"              -> <<[open |-> TRUE, tag |-> "speak"]>>
      [] piece = "<voice "              -> <<[open |-> TRUE, tag |-> "voice"]>>
      [] piece = "<prosody "            -> <<[open |-> TRUE, tag |-> "prosody"]>>
      [] piece = "<emphasis level='"    -> <<[open |-> TRUE, tag |-> "emphasis"]>>
      [] piece = "<google:style name='" -> <<[open |-> TRUE, tag |-> "style"]>>
      [] piece = "</google:style>"      -> <<[open |-> FALSE, tag |-> "style"]>>
      [] piece = "</emphasis>"          -> <<[open |-> FALSE, tag |-> "emphasis"]>>
      [] piece = "</prosody>"           -> <<[open |-> FALSE, tag |-> "prosody"]>>
      [] piece = "</voice></speak>"     -> <<[open |-> FALSE, tag |-> "voice"],
                                             [open |-> FALSE, tag |-> "speak"]>>
      [] OTHER                          -> <<>>

\* the tags of a markup string, in order
TagsOf(ssml) == Concat([k \in 1..Len(ssml) |-> TagEvents(ssml[k])])

\* every closing tag closes the tag opened last and not yet closed, and
\* nothing is left open; stack holds the open tags, the last one first
RECURSIVE WellNested(_, _)
WellNested(events, stack) ==
    IF events = <<>>
    THEN stack = <<>>
    ELSE IF Head(events).open
    THEN WellNested(Tail(events), <<Head(events).tag>> \o stack)
    ELSE /\ stack # <<>>
         /\ Head(stack) = Head(events).tag
         /\ WellNested(Tail(events), Tail(stack))

\* the tags the settings ask for, outermost first
WantedTags(settings) ==
    <<"speak", "voice">>
    \o (IF truthy(settings.pitch) \/ truthy(settings.rate)
           \/ truthy(settings.volume)
        THEN <<"prosody">> ELSE <<>>)
    \o (IF truthy(settings.emphasis) THEN <<"emphasis">> ELSE <<>>)
    \o (IF truthy(settings.google_style) THEN <<"style">> ELSE <<>>)

Reverse(s) == [k \in 1..Len(s) |-> s[Len(s) + 1 - k]]

\* the chunk stands in the markup string right after the end of the last
\* opening tag and right before the first closing tag
TextAfterLastOpening(ssml, chunk) ==
    \E i \in 1..Len(ssml) :
        /\ ssml[i] \in {">", "'>"}
        /\ i + Len(chunk) <= Len(ssml)
        /\ SubSeq(ssml, i + 1, i + Len(chunk)) = chunk
        /\ \A e \in 1..Len(TagsOf(SubSeq(ssml, 1, i))) :
              TagsOf(SubSeq(ssml, 1, i))[e].open
        /\ \A k \in i + Len(chunk) + 1..Len(ssml) :
              /\ TagEvents(ssml[k]) # <<>>
              /\ \A e \in 1..Len(TagEvents(ssml[k])) : ~TagEvents(ssml[k])[e].open

\* C11: whatever settings are present, the markup of every chunk opens speak
\* and voice, and prosody, emphasis and style exactly when their settings are
\* present (prosody when pitch, rate or volume is), in that order; the chunk
\* follows the last opening tag; the tags opened are closed in the reverse
\* order, so that the markup is well nested.
C11_MarkupWellNested ==
    \A c \in Calls :
        \A k \in 1..Len(sent[c]) :
            sent[c][k].kind = "ssml" =>
                LET ssml   == sent[c][k].ssml
                    wanted == WantedTags(_settings)
                IN  /\ TagsOf(ssml) =
                          [n \in 1..Len(wanted) |->
                              [open |-> TRUE, tag |-> wanted[n]]]
                          \o [n \in 1..Len(wanted) |->
                              [open |-> FALSE, tag |-> Reverse(wanted)[n]]]
                    /\ WellNested(TagsOf(ssml), <<>>)
                    /\ TextAfterLastOpening(ssml, _chunk_text(ctext[c])[k - 1])

\* C11 witness: a markup request of a chunk has been sent with the prosody
\* tag asked for by one of its three settings only, and with the emphasis and
\* the style tags.
C11_Witness ==
    /\ truthy(_settings.rate)
    /\ ~truthy(_settings.pitch)
    /\ ~truthy(_settings.volume)
    /\ truthy(_settings.emphasis)
    /\ truthy(_settings.google_style)
    /\ Len(sent[1]) >= 2
    /\ sent[1][2].kind = "ssml"
    /\ Len(TagsOf(sent[1][2].ssml)) = 10

\* the text is empty or holds whitespace only
IsBlank(t) == \A k \in 1..Len(t) : t[k] \in Whitespace

\* C13 (as claimed): for an empty text and for a text of whitespace only the
\* chunk list of the call is empty, and the requests of the call are the
\* Config request alone.
C13_BlankTextNoInput ==
    \A c \in Calls :
        (gen[c].created /\ IsBlank(ctext[c])) =>
            /\ gen[c].text_chunks = <<>>
            /\ Len(sent[c]) <= 1

\* C26 (as claimed): the language of the settings is never absent, and
\* neither is the language of the Config request of a call.
C26_LanguageNeverAbsent ==
    \A c \in Calls :
        gen[c].created =>
            /\ truthy(_settings.language)
            /\ truthy(gen[c].config_request.language_code)
            /\ \A k \in 1..Len(sent[c]) :
                  sent[c][k].kind = "config" =>
                      truthy(sent[c][k].language_code)

\* the value of the name attribute of the voice tag of a markup string:
\* the pieces between "name='" and the next "'"
VoiceNameIn(ssml) ==
    LET from == CHOOSE k \in 1..Len(ssml) : ssml[k] = "name='"
        to   == CHOOSE k \in from + 1..Len(ssml) :
                    /\ ssml[k] = "'"
                    /\ \A j \in from + 1..k - 1 : ssml[j] # "'"
    IN  SubSeq(ssml, from + 1, to - 1)

\* C27 (as claimed): the voice named in every markup request of a call is
\* the voice named in the Config request of that call, and the input
\* requests of a call are all markup or all plain text, whatever is done to
\* the voice of the service while the requests are taken.
C27_OneVoicePerCall ==
    \A c \in Calls :
        /\ \A k \in 2..Len(sent[c]) :
              sent[c][k].kind = "ssml" =>
                  VoiceNameIn(sent[c][k].ssml) = sent[c][1].name
        /\ \A j, k \in 2..Len(sent[c]) : sent[c][j].kind = sent[c][k].kind

-----------------------------------------------------------------------------
(* Properties of the construction *)

\* the sources __init__ has consulted, in order
SourcesConsulted ==
    [k \in 1..Len(construction.consulted) |-> construction.consulted[k].source]

\* C14: once __init__ has ended, the sources it consulted are the JSON
\* string alone if one was supplied, else the file alone if a path was
\* supplied, else the environment alone; the client exists exactly when the
\* source consulted gave credentials, and is made from them; otherwise
\* __init__ has raised and there is no client, also when the lookup in the
\* environment raised an authentication error.
C14_CredentialPriority ==
    construction.state # "new" =>
        /\ SourcesConsulted =
              IF truthy(credentials) THEN <<"info">>
              ELSE IF truthy(credentials_path) THEN <<"file">>
              ELSE <<"default">>
        /\ LET used == construction.consulted[1] IN
           IF used.outcome = "creds"
           THEN /\ construction.state = "constructed"
                /\ construction.error = "none"
                /\ _client = [created |-> TRUE, credentials |-> used.source]
           ELSE /\ construction.state = "failed"
                /\ construction.error # "none"
                /\ ~_client.created

\* C14 witness: neither argument was supplied, the lookup in the
\* environment raised an authentication error, and __init__ has raised.
C14_Witness ==
    /\ ~truthy(credentials)
    /\ ~truthy(credentials_path)
    /\ construction.state = "failed"
    /\ construction.consulted =
          <<[source |-> "default", outcome |-> "GoogleAuthError"]>>
    /\ construction.error = "ValueError"
    /\ ~_client.created

-----------------------------------------------------------------------------
(* Properties of run_tts *)

\* the frames call c has yielded, in order
Frames(c) == SelectSeq(log[c], LAMBDA e : e.op \in FrameOps)

\* the audio frames call c has yielded from response number r, in order
BuffersOf(c, r) ==
    SelectSeq(log[c], LAMBDA e : e.op = "audio" /\ e.resp = r)

\* the places of log[c] where op was done
Places(c, op) == {k \in 1..Len(log[c]) : log[c][k].op = op}

\* the buffers are the whole of a payload of n bytes, in payload order
Covers(bufs, n) ==
    /\ \A k \in 1..Len(bufs) : bufs[k].lo < bufs[k].hi
    /\ \A k \in 1..Len(bufs) - 1 : bufs[k].hi = bufs[k + 1].lo
    /\ IF n = 0
       THEN bufs = <<>>
       ELSE bufs # <<>> /\ bufs[1].lo = 0 /\ bufs[Len(bufs)].hi = n

\* C4: a call that returned without a failure and without a cancellation
\* has yielded one start frame, then the audio of every response received,
\* in response order and in payload order, then one stop frame, and the stop
\* frame only after the response stream was exhausted.
C4_CompleteCallSequence ==
    \A c \in Calls :
        (pc[c] = "done" /\ failure[c] = "none" /\ Places(c, "cancel") = {}) =>
            LET f == Frames(c) IN
            /\ Len(f) >= 2
            /\ f[1].op = "started"
            /\ f[Len(f)].op = "stopped"
            /\ \A k \in 2..Len(f) - 1 : f[k].op = "audio"
            /\ \A j, k \in 2..Len(f) - 1 : j < k => f[j].resp <= f[k].resp
            /\ \A r \in 1..Len(responses[c]) :
                  Covers(BuffersOf(c, r), responses[c][r])
            /\ \A k \in 2..Len(f) - 1 : f[k].resp \in 1..Len(responses[c])
            /\ Cardinality(Places(c, "exhausted")) = 1
            /\ \A e \in Places(c, "exhausted") :
                  /\ \A k \in Places(c, "response") \cup Places(c, "audio") : k < e
                  /\ \A k \in Places(c, "stopped") : e < k

\* C4 witness: a call has returned after two responses, one of them cut
\* into two buffers.
C4_Witness ==
    /\ pc[1] = "done"
    /\ failure[1] = "none"
    /\ Places(1, "cancel") = {}
    /\ Len(responses[1]) = 2
    /\ Len(BuffersOf(1, 1)) = 2
    /\ Len(BuffersOf(1, 2)) = 1

\* C5: when the chunking or the remote call (on opening it, or on a later
\* response) raises, the frames of the call are one start frame, the audio
\* frames yielded before, and one error frame, the last; there is no stop
\* frame and no exception reaches the caller.
C5_FailureEndsWithError ==
    \A c \in Calls :
        failure[c] \in {"chunking", "open", "response"} =>
            LET f == Frames(c) IN
            /\ Len(f) >= 2
            /\ f[1].op = "started"
            /\ f[Len(f)].op = "error"
            /\ \A k \in 2..Len(f) - 1 : f[k].op = "audio"
            /\ Places(c, "stopped") = {}
            /\ raised[c] = "none"
            /\ pc[c] \in {"error_yielded", "done", "ended"}

\* C5 witness: the stream raised after audio was yielded, and the call has
\* returned.
C5_Witness ==
    /\ failure[1] = "response"
    /\ pc[1] = "done"
    /\ Len(Frames(1)) >= 3

\* C6: stop_ttfb_metrics is called at most once in a call, and exactly when
\* the first response is received: right after it is received, before any
\* audio of it is yielded, never for a later response, and never in a call
\* that receives no response.
C6_TtfbStopOnFirstResponse ==
    \A c \in Calls :
        /\ Cardinality(Places(c, "stop_ttfb")) <= 1
        /\ \A k \in Places(c, "stop_ttfb") :
              /\ k > 1
              /\ log[c][k - 1].op = "response"
              /\ log[c][k - 1].resp = 1
        /\ \A k \in Places(c, "response") :
              log[c][k].resp = 1 =>
                  k < Len(log[c]) /\ log[c][k + 1].op = "stop_ttfb"
        /\ \A k \in Places(c, "audio") :
              \E j \in Places(c, "stop_ttfb") : j < k
        /\ responses[c] = <<>> => Places(c, "stop_ttfb") = {}

\* C6 witness: a call has received two responses and yielded audio of the
\* second.
C6_Witness ==
    /\ Len(responses[1]) = 2
    /\ BuffersOf(1, 2) # <<>>
    /\ Cardinality(Places(1, "stop_ttfb")) = 1

\* call c has left the loop over the payload of its response number r
ResponseDone(c, r) == r < Len(responses[c]) \/ Places(c, "exhausted") # {}

\* C12: the audio buffers of every response received are consecutive slices
\* of its payload from byte 0 on: each but the last has CHUNK_SIZE bytes, the
\* last has 1 to CHUNK_SIZE bytes and, once the call has gone on to the next
\* response or to the end of the stream, ends where the payload ends; none is
\* empty; each carries self.sample_rate and one channel; an empty payload
\* gives no buffer.
C12_PayloadInBuffers ==
    \A c \in Calls :
        /\ \A k \in Places(c, "audio") : log[c][k].resp \in 1..Len(responses[c])
        /\ \A r \in 1..Len(responses[c]) :
              LET bufs == BuffersOf(c, r)
                  n    == responses[c][r]
              IN  /\ \A k \in 1..Len(bufs) :
                        /\ bufs[k].lo = (k - 1) * CHUNK_SIZE
                        /\ bufs[k].hi - bufs[k].lo >= 1
                        /\ bufs[k].hi - bufs[k].lo <= CHUNK_SIZE
                        /\ bufs[k].hi <= n
                        /\ bufs[k].sample_rate = "self.sample_rate"
                        /\ bufs[k].num_channels = 1
                  /\ \A k \in 1..Len(bufs) - 1 :
                        /\ bufs[k].hi - bufs[k].lo = CHUNK_SIZE
                        /\ bufs[k].hi = bufs[k + 1].lo
                  /\ n = 0 => bufs = <<>>
                  /\ (ResponseDone(c, r) /\ n > 0) =>
                        bufs # <<>> /\ bufs[Len(bufs)].hi = n

\* C12 witness: the stream has ended after a response cut into two full
\* buffers and a last one of one byte, and a response without audio.
C12_Witness ==
    /\ responses[1] = <<2 * CHUNK_SIZE + 1, 0>>
    /\ Places(1, "exhausted") # {}
    /\ Len(BuffersOf(1, 1)) = 3
    /\ BuffersOf(1, 1)[3].hi - BuffersOf(1, 1)[3].lo = 1
    /\ BuffersOf(1, 2) = <<>>

\* call c waits for the remote endpoint: for streaming_synthesize to return
\* in the executor, or for the next response of the stream
WaitsForRemote(c) == pc[c] \in {"dispatch", "receive"}

\* C15 (as claimed): while a call waits for the remote endpoint, on opening
\* the stream and on every response, the other tasks of the event loop are
\* able to run.
C15_RemoteWaitOffLoop ==
    \A c \in Calls : WaitsForRemote(c) => LoopIdle

IsPrefix(a, b) == Len(a) <= Len(b) /\ a = SubSeq(b, 1, Len(a))

\* what a call does with its response number r, of n bytes, when it is the
\* only call of the service
AloneResponse(r, n) ==
    <<[op |-> "response", resp |-> r]>>
    \o (IF r = 1 THEN <<[op |-> "stop_ttfb"]>> ELSE <<>>)
    \o [k \in 1..((n + CHUNK_SIZE - 1) \div CHUNK_SIZE) |->
           [op |-> "audio", resp |-> r, lo |-> (k - 1) * CHUNK_SIZE,
            hi |-> IF k * CHUNK_SIZE < n THEN k * CHUNK_SIZE ELSE n,
            sample_rate |-> "self.sample_rate", num_channels |-> 1]]

\* the whole log of a call that is the only call of the service, is not
\* cancelled, receives the payloads resps and then meets the failure fail,
\* or the end of the stream if fail is "none"
AloneLog(resps, fail) ==
    LET timer   == <<[op |-> "start_ttfb"]>>
        metrics == timer \o <<[op |-> "usage"]>>
        started == metrics \o <<[op |-> "started"]>>
        stream  == started \o <<[op |-> "open"]>>
                   \o Concat([r \in 1..Len(resps) |-> AloneResponse(r, resps[r])])
    IN  CASE fail = "ttfb"     -> timer \o <<[op |-> "error"]>>
          [] fail = "usage"    -> metrics \o <<[op |-> "error"]>>
          [] fail = "chunking" -> started \o <<[op |-> "error"]>>
          [] fail = "open"     -> started \o <<[op |-> "open"], [op |-> "error"]>>
          [] fail = "response" -> stream \o <<[op |-> "error"]>>
          [] fail = "none"     -> stream \o <<[op |-> "exhausted"],
                                              [op |-> "stopped"]>>

\* C16: with two calls interleaved, what each call has done so far is the
\* beginning of what it does alone with the same responses and the same
\* failure, and all of it once the call has yielded its last frame; so each
\* call stops the ttfb timer once, right after its own first response,
\* whatever the other call has received.
C16_CallsArePrivate ==
    \A c \in Calls :
        /\ IsPrefix(log[c], AloneLog(responses[c], failure[c]))
        /\ pc[c] \in {"stop_yielded", "error_yielded", "done"} =>
              log[c] = AloneLog(responses[c], failure[c])
        /\ responses[c] # <<>> => Cardinality(Places(c, "stop_ttfb")) = 1

\* C16 witness: both calls are under way, each between two buffers of its
\* second response, and each has stopped the timer once.
C16_Witness ==
    /\ pc[1] = "sleep"
    /\ pc[2] = "audio_yielded"
    /\ Len(responses[1]) = 2
    /\ Len(responses[2]) = 2
    /\ responses[1][2] > CHUNK_SIZE
    /\ Cardinality(Places(1, "stop_ttfb")) = 1
    /\ Cardinality(Places(2, "stop_ttfb")) = 1

AllRequests(c) ==
    <<config_request(_voice_id, _settings)>>
    \o [k \in 1..Len(_chunk_text(ctext[c])) |->
           input_request(use_ssml(_voice_id), _voice_id, _settings,
                         _chunk_text(ctext[c])[k])]

\* C18: a call opens the stream of the remote endpoint at most once; after
\* a failure it does not open it again, receives nothing and yields no audio;
\* the requests sent are the beginning of the requests of the call, each
\* sent once.
C18_NoRetry ==
    \A c \in Calls :
        /\ Cardinality(Places(c, "open")) <= 1
        /\ \A e \in Places(c, "error") :
              \A k \in e + 1..Len(log[c]) :
                  log[c][k].op \notin {"open", "response", "audio", "started",
                                       "start_ttfb", "usage"}
        /\ failure[c] # "none" => Cardinality(Places(c, "error")) <= 1
        /\ IsPrefix(sent[c], AllRequests(c))

\* C18 witness: the stream raised after every request was sent and a
\* response was received, and the call has returned after its error frame.
C18_Witness ==
    /\ failure[1] = "response"
    /\ pc[1] = "done"
    /\ responses[1] # <<>>
    /\ Len(sent[1]) = 3
    /\ Cardinality(Places(1, "open")) = 1
    /\ Cardinality(Places(1, "error")) = 1

\* C19: a call made after a call that ended with an error frame does what a
\* lone call does: its log is the beginning of, and at its end equal to, the
\* log of a lone call with its responses and its failure; it stops the ttfb
\* timer once, after its own first response; its requests begin anew with
\* the Config request; and if nothing fails in it, its frames are a start
\* frame, its audio frames and a stop frame.
C19_FreshAfterError ==
    EndedWithError(1) =>
        /\ IsPrefix(log[2], AloneLog(responses[2], failure[2]))
        /\ pc[2] \in {"stop_yielded", "error_yielded", "done"} =>
              log[2] = AloneLog(responses[2], failure[2])
        /\ responses[2] # <<>> =>
              /\ Cardinality(Places(2, "stop_ttfb")) = 1
              /\ \A k \in Places(2, "stop_ttfb") :
                    log[2][k - 1] = [op |-> "response", resp |-> 1]
        /\ IsPrefix(sent[2], AllRequests(2))
        /\ (pc[2] = "done" /\ failure[2] = "none") =>
              LET f == Frames(2) IN
              /\ f[1].op = "started"
              /\ f[Len(f)].op = "stopped"
              /\ \A k \in 2..Len(f) - 1 : f[k].op = "audio"
              /\ \A r \in 1..Len(responses[2]) :
                    Covers(BuffersOf(2, r), responses[2][r])

\* C19 witness: the first call received a response and then failed; the
\* second call has returned without a failure, with audio, after all its
\* requests were taken.
C19_Witness ==
    /\ EndedWithError(1)
    /\ failure[1] = "response"
    /\ responses[1] # <<>>
    /\ pc[2] = "done"
    /\ failure[2] = "none"
    /\ Len(responses[2]) = 2
    /\ Places(2, "audio") # {}
    /\ sent[2] = AllRequests(2)

\* C25: when start_ttfb_metrics or start_tts_usage_metrics raises, the call
\* yields one error frame and no other frame, opens no stream, and lets no
\* exception through to its caller.
C25_EarlyFailureOnlyError ==
    \A c \in Calls :
        failure[c] \in {"ttfb", "usage"} =>
            /\ Frames(c) = <<[op |-> "error"]>>
            /\ Places(c, "open") = {}
            /\ Places(c, "response") = {}
            /\ sent[c] = <<>>
            /\ raised[c] = "none"
            /\ pc[c] \in {"error_yielded", "done", "ended"}

\* C25 witness: start_tts_usage_metrics raised, and the call has returned
\* after its error frame.
C25_Witness ==
    /\ failure[1] = "usage"
    /\ pc[1] = "done"
    /\ log[1] = <<[op |-> "start_ttfb"], [op |-> "usage"], [op |-> "error"]>>

\* C7: once the caller has cancelled, the call yields no audio frame and no
\* stop frame.
C7_NothingAfterCancel ==
    \A c \in Calls :
        \A k \in Places(c, "cancel") :
            \A j \in k + 1..Len(log[c]) :
                log[c][j].op \notin {"audio", "stopped"}

\* C7 witness: the caller cancelled during the sleep after the first of the
\* two buffers of a response, and the call was left by the cancellation.
C7_Witness ==
    /\ Places(1, "cancel") # {}
    /\ pc[1] = "ended"
    /\ raised[1] = "CancelledError"
    /\ responses[1] # <<>>
    /\ responses[1][Len(responses[1])] > CHUNK_SIZE
    /\ Len(BuffersOf(1, Len(responses[1]))) = 1

=============================================================================
